---- MODULE Spec2Model ----
(***************************************************************************)
(* PACS Preloader, backend/server.py: the JSON index store, the patient    *)
(* registration and image ingestion endpoints, the refresh queue and the   *)
(* OCR mode scorer.                                                        *)
(*                                                                         *)
(* Strings are sequences of one-character strings, so that sanitizing,     *)
(* concatenating and comparing them is computed as the code computes it.   *)
(* Timestamps (datetime.now().isoformat()) are readings of an integer      *)
(* clock; 0 stands for "no timestamp" (None, or an absent field).          *)
(***************************************************************************)
EXTENDS Integers, Sequences, FiniteSets, TLC

\* ---------------------------------------------------------------- bounds
MaxClock == 3      \* clock readings taken by index-writing requests
MaxImages == 2     \* Image records held by the whole index
MaxFiles == 2
MaxInputLen == 3   \* length of the strings sanitize_filename is applied to

\* ------------------------------------------------------------ characters
Digits == {"0", "1", "2", "3", "4", "5", "6", "7", "8", "9"}
Letters == {"a", "b", "d", "g", "i", "j", "k", "n", "o", "p", "s", "t", "u", "w", "x", "y", "U"}
\* \w of Python's re: alphanumerics and the underscore
WordChars == Digits \cup Letters \cup {"_"}
\* \s of Python's re
SpaceChars == {" "}

\* code points, for the comparison of strings (str.__lt__)
Alphabet == <<" ", "-", ".", "/", "0", "1", "2", "3", "4", "5", "6", "7", "8", "9", "U", "_", "a", "b", "d", "g", "i", "j", "k", "n", "o", "p", "s", "t", "u", "w", "x", "y">>
Ord(c) == CHOOSE i \in 1..Len(Alphabet) : Alphabet[i] = c

RECURSIVE StrLess(_, _)
StrLess(s, t) ==
  IF t = <<>> THEN FALSE
  ELSE IF s = <<>> THEN TRUE
  ELSE IF Head(s) = Head(t) THEN StrLess(Tail(s), Tail(t))
  ELSE Ord(Head(s)) < Ord(Head(t))

\* ------------------------------------------------------ sanitize_filename
SanitizeMaxLen == 100

\* re.sub(r'[^\w\s\-.]', '', name)
IsSafeChar(c) == c \in WordChars \cup SpaceChars \cup {"-", "."}
StripUnsafe(s) == SelectSeq(s, IsSafeChar)

\* re.sub(r'\s+', '_', name): every maximal run of whitespace becomes one "_"
\* (the last character of a run is replaced, the ones before it are dropped)
IsKept(c) == c # ""
CollapseSpaces(s) ==
  LET replaced == [i \in 1..Len(s) |->
                     IF s[i] \notin SpaceChars THEN s[i]
                     ELSE IF i < Len(s) /\ s[i + 1] \in SpaceChars THEN "" ELSE "_"]
  IN SelectSeq(replaced, IsKept)

\* name[:100]
Truncate(s, n) == IF Len(s) <= n THEN s ELSE SubSeq(s, 1, n)

\* whitespace is kept as it is
sanitize_filename_NoCollapse(name) == Truncate(StripUnsafe(name), SanitizeMaxLen)

sanitize_filename(name) == Truncate(CollapseSpaces(StripUnsafe(name)), SanitizeMaxLen)

\* ------------------------------------------------------------ int(string)
\* str.strip() of the surrounding whitespace
RECURSIVE LStrip(_)
LStrip(s) == IF s # <<>> /\ Head(s) \in SpaceChars THEN LStrip(Tail(s)) ELSE s
RECURSIVE RStrip(_)
RStrip(s) == IF s # <<>> /\ s[Len(s)] \in SpaceChars THEN RStrip(SubSeq(s, 1, Len(s) - 1)) ELSE s
Unsigned(s) == IF s # <<>> /\ Head(s) \in {"+", "-"} THEN Tail(s) ELSE s
IntBody(s) == Unsigned(RStrip(LStrip(s)))
\* int() accepts digits, with single underscores between digits
IsIntLiteral(s) ==
  LET b == IntBody(s) IN
  /\ b # <<>>
  /\ \A i \in 1..Len(b) : b[i] \in Digits \cup {"_"}
  /\ b[1] \in Digits /\ b[Len(b)] \in Digits
  /\ \A i \in 1..(Len(b) - 1) : ~(b[i] = "_" /\ b[i + 1] = "_")
DigitVal(c) == Ord(c) - Ord("0")
RECURSIVE DigitsVal(_, _)
DigitsVal(b, acc) ==
  IF b = <<>> THEN acc
  ELSE IF Head(b) = "_" THEN DigitsVal(Tail(b), acc)
  ELSE DigitsVal(Tail(b), 10 * acc + DigitVal(Head(b)))
IntOf(s) ==
  LET t == RStrip(LStrip(s)) IN
  IF t # <<>> /\ Head(t) = "-" THEN 0 - DigitsVal(IntBody(s), 0) ELSE DigitsVal(IntBody(s), 0)

\* ------------------------------------------------------------- input values
NameA == <<"a">>
NameASlash == <<"a", "/">>      \* sanitizes to the same key as NameA
NameB == <<"b">>
UidStudy == <<"s", "t", "u", "d", "y", "_">>
Date2 == <<"2">>
Date1s12 == <<"1", "/", "1", "2">>    \* 1/12
Date11s2 == <<"1", "1", "/", "2">>    \* 11/2
ImageUidI == <<"i">>
\* uuid.uuid4().hex[:6]
Hex0 == <<"0", "0", "0", "0", "0", "0">>
Hex1 == <<"0", "0", "0", "0", "0", "1">>

\* --------------------------------------------------------------- the state
VARIABLES
  index_file,   \* pacs_data/index.json: whether it exists, and the document
  files,        \* image files under pacs_data/images: <<patient dir, filename>>
  dirs,         \* the patient directories under pacs_data/images
  clock,        \* the wall clock
  last,         \* the request handled last: what it resolved and its response
  tasks,        \* the receive_image calls in flight: where each one is, and its locals
  write         \* the save_index that has opened index.json and not yet closed it

vars == <<index_file, files, dirs, clock, last, tasks, write>>

\* ------------------------------------------------------------ dictionaries
EmptyMap == [k \in {} |-> 0]
Put(m, k, v) == [x \in DOMAIN m \cup {k} |-> IF x = k THEN v ELSE m[x]]
Remove(m, k) == [x \in DOMAIN m \ {k} |-> m[x]]
\* the value dict.get(field) gives for an absent field
None == <<"None">>

\* ---------------------------------------------------------- the index store
\* {"patients": {}, "pending_refreshes": {}, "updated": None}
\* (order is the insertion order of the patients dict, which json keeps)
FreshIndex == [patients |-> EmptyMap, order |-> <<>>, has_pending |-> TRUE, pending_refreshes |-> EmptyMap, updated |-> 0]

\* the pending refreshes are reset on every load
load_index_ResetsPending ==
  IF index_file.exists
  THEN [index_file.data EXCEPT !.has_pending = TRUE, !.pending_refreshes = EmptyMap]
  ELSE FreshIndex

load_index ==
  IF index_file.exists
  THEN IF index_file.data.has_pending
       THEN index_file.data
       ELSE [index_file.data EXCEPT !.has_pending = TRUE, !.pending_refreshes = EmptyMap]
  ELSE FreshIndex

save_index(index, now) == [exists |-> TRUE, data |-> [index EXCEPT !.updated = now]]

\* ------------------------------------------------------------------ helpers
Underscore == <<"_">>
StudyLiteral == <<"s", "t", "u", "d", "y">>
UnknownLiteral == <<"u", "n", "k", "n", "o", "w", "n">>
JpgExt == <<".", "j", "p", "g">>
\* x or y, on strings
Or(x, y) == IF x # <<>> THEN x ELSE y

PatientKey(patient_name, patient_dob) == sanitize_filename(patient_name \o Underscore \o patient_dob)

NewPatient(patient_name, patient_dob, clinic_date, now) ==
  [name |-> patient_name, dob |-> patient_dob, clinic_date |-> clinic_date, studies |-> EmptyMap, image_count |-> 0, created_at |-> now]

AddPatient(index, key, patient) ==
  [index EXCEPT !.patients = Put(@, key, patient), !.order = Append(@, key)]

RECURSIVE SumLens(_, _)
SumLens(studies, keys) ==
  IF keys = {} THEN 0
  ELSE LET k == CHOOSE x \in keys : TRUE IN Len(studies[k].images) + SumLens(studies, keys \ {k})
\* the studies are counted instead of their images
ImageCount_Studies(studies) == Cardinality(DOMAIN studies)

\* sum(len(s["images"]) for s in patient["studies"].values())
ImageCount(studies) == SumLens(studies, DOMAIN studies)

RECURSIVE SumCounts(_, _)
SumCounts(patients, keys) ==
  IF keys = {} THEN 0
  ELSE LET k == CHOOSE x \in keys : TRUE IN ImageCount(patients[k].studies) + SumCounts(patients, keys \ {k})
TotalImages(index) == SumCounts(index.patients, DOMAIN index.patients)

\* --------------------------------------------------------- initial states
\* The clock reads 1 at the first request of a session; the timestamps an
\* earlier session left in index.json are negative, and 0 is no timestamp.
NoRequest == [op |-> "none"]
\* the receive_image calls that may be suspended at "await image.read()"
Requests == {1, 2}
Idle == [pc |-> "idle"]
\* no save_index is between opening index.json and closing it
NoWrite == [stage |-> "none"]

\* a first start: no index.json, an empty images directory
InitFresh ==
  /\ index_file = [exists |-> FALSE, data |-> FreshIndex]
  /\ files = {}
  /\ dirs = {}
  /\ clock = 1
  /\ last = NoRequest
  /\ tasks = [r \in Requests |-> Idle]
  /\ write = NoWrite

\* the index.json left by a session in which register_patient registered
\* "a" and then "b", both without a clinic date
SessionIndex ==
  save_index(AddPatient(AddPatient(FreshIndex, PatientKey(NameA, <<>>), NewPatient(NameA, <<>>, <<>>, 0 - 2)),
                        PatientKey(NameB, <<>>), NewPatient(NameB, <<>>, <<>>, 0 - 1)), 0 - 1)

InitSession ==
  /\ index_file = SessionIndex
  /\ files = {}
  /\ dirs = {}
  /\ clock = 1
  /\ last = NoRequest
  /\ tasks = [r \in Requests |-> Idle]
  /\ write = NoWrite

Init == InitFresh \/ InitSession

\* ------------------------------------------------- POST /api/patients/register
\* an existing patient is overwritten with the submitted fields
register_patient_Upsert(patient_name, patient_dob, clinic_date) ==
  LET index == load_index
      patient_key == PatientKey(patient_name, patient_dob)
  IN /\ clock <= MaxClock
     /\ index_file' = IF patient_key \notin DOMAIN index.patients
                      THEN save_index(AddPatient(index, patient_key, NewPatient(patient_name, patient_dob, clinic_date, clock)), clock)
                      ELSE save_index([index EXCEPT !.patients[patient_key].name = patient_name,
                                                    !.patients[patient_key].dob = patient_dob,
                                                    !.patients[patient_key].clinic_date = clinic_date], clock)
     /\ clock' = clock + 1
     /\ last' = [op |-> "register_patient", status |-> "registered", key |-> patient_key, name |-> patient_name]
     /\ UNCHANGED <<files, dirs, tasks, write>>

register_patient(patient_name, patient_dob, clinic_date) ==
  LET index == load_index
      patient_key == PatientKey(patient_name, patient_dob)
  IN /\ IF patient_key \notin DOMAIN index.patients
        THEN /\ clock <= MaxClock
             /\ index_file' = save_index(AddPatient(index, patient_key, NewPatient(patient_name, patient_dob, clinic_date, clock)), clock)
             /\ clock' = clock + 1
        ELSE UNCHANGED <<index_file, clock>>
     /\ last' = [op |-> "register_patient", status |-> "registered", key |-> patient_key, name |-> patient_name]
     /\ UNCHANGED <<files, dirs, tasks, write>>

\* ------------------------------------------------------------ POST /api/images
\* study_uid when available, else description+date
StudyKey(study_uid, study_description, study_date, clinic_date) ==
  IF study_uid # <<>>
  THEN study_uid
  ELSE LET fallback_date == Or(study_date, Or(clinic_date, <<>>))
       IN Or(sanitize_filename(Or(study_description, StudyLiteral) \o Underscore \o fallback_date), UnknownLiteral)

NewStudy(study_uid, study_description, study_date) ==
  [uid |-> study_uid, description |-> study_description, date |-> study_date, images |-> <<>>]

\* img.get("uid")
GetUid(img) == IF "uid" \in DOMAIN img THEN img.uid ELSE None

\* the check compares another field of the stored record
IsDuplicate_ByFilename(study, image_uid) ==
  /\ image_uid # <<>>
  /\ \E i \in 1..Len(study.images) : study.images[i].filename = image_uid

\* the check is left out
IsDuplicate_Never(study, image_uid) == FALSE

\* the check runs for an empty uid too and reads img.get("uid", "")
IsDuplicate_EmptyUidToo(study, image_uid) ==
  \E i \in 1..Len(study.images) :
    (IF "uid" \in DOMAIN study.images[i] THEN study.images[i].uid ELSE <<>>) = image_uid

\* the duplicate check: the image UID already exists for this study
IsDuplicate(study, image_uid) ==
  /\ image_uid # <<>>
  /\ \E i \in 1..Len(study.images) : GetUid(study.images[i]) = image_uid

\* f"{study_prefix}_{image_index}_{uuid.uuid4().hex[:6]}.jpg"
Filename(study_description, study_uid, image_index, hex) ==
  sanitize_filename(Or(study_description, Or(study_uid, StudyLiteral))) \o Underscore \o image_index \o Underscore \o hex \o JpgExt

ImageEntry(patient_key, filename, image_index, image_uid, now) ==
  LET entry == [filename |-> filename, path |-> <<"images", patient_key, filename>>, index |-> IntOf(image_index), saved_at |-> now]
  IN IF image_uid # <<>>
     THEN [f \in DOMAIN entry \cup {"uid"} |-> IF f = "uid" THEN image_uid ELSE entry[f]]
     ELSE entry

\* every non-empty clinic date of an upload is taken over
ResolvePatient_Overwrite(index, patient_key, patient_name, patient_dob, clinic_date, now) ==
  IF patient_key \notin DOMAIN index.patients
  THEN AddPatient(index, patient_key, NewPatient(patient_name, patient_dob, clinic_date, now))
  ELSE IF clinic_date # <<>>
       THEN [index EXCEPT !.patients[patient_key].clinic_date = clinic_date]
       ELSE index

\* an upload also takes over the submitted name and date of birth
ResolvePatient_UpdatesName(index, patient_key, patient_name, patient_dob, clinic_date, now) ==
  IF patient_key \notin DOMAIN index.patients
  THEN AddPatient(index, patient_key, NewPatient(patient_name, patient_dob, clinic_date, now))
  ELSE [index EXCEPT !.patients[patient_key].name = patient_name,
                     !.patients[patient_key].dob = patient_dob,
                     !.patients[patient_key].clinic_date = IF clinic_date # <<>> /\ @ = <<>> THEN clinic_date ELSE @]

\* create the patient, or backfill the clinic date of an existing one
ResolvePatient(index, patient_key, patient_name, patient_dob, clinic_date, now) ==
  IF patient_key \notin DOMAIN index.patients
  THEN AddPatient(index, patient_key, NewPatient(patient_name, patient_dob, clinic_date, now))
  ELSE IF clinic_date # <<>> /\ index.patients[patient_key].clinic_date = <<>>
       THEN [index EXCEPT !.patients[patient_key].clinic_date = clinic_date]
       ELSE index

ResolveStudy(studies, study_key, study_uid, study_description, study_date) ==
  IF study_key \notin DOMAIN studies
  THEN Put(studies, study_key, NewStudy(study_uid, study_description, study_date))
  ELSE studies

\* the new record replaces the list instead of being appended
AppendImage_Replace(index, patient_key, studies, study_key, entry) ==
  LET replaced == [studies EXCEPT ![study_key].images = <<entry>>]
  IN [index EXCEPT !.patients[patient_key].studies = replaced,
                   !.patients[patient_key].image_count = ImageCount(replaced)]

\* study["images"].append(image_entry); patient["image_count"] = sum(...)
AppendImage(index, patient_key, studies, study_key, entry) ==
  LET appended == [studies EXCEPT ![study_key].images = Append(@, entry)]
  IN [index EXCEPT !.patients[patient_key].studies = appended,
                   !.patients[patient_key].image_count = ImageCount(appended)]

receive_image(patient_name, patient_dob, study_uid, study_description, study_date, image_index, clinic_date, image_uid, hex) ==
  \E index \in {load_index}, patient_key \in {PatientKey(patient_name, patient_dob)}, study_key \in {StudyKey(study_uid, study_description, study_date, clinic_date)}, filename \in {Filename(study_description, study_uid, image_index, hex)} :
  \E resolved \in {ResolvePatient(index, patient_key, patient_name, patient_dob, clinic_date, clock)} :
  \E studies \in {ResolveStudy(resolved.patients[patient_key].studies, study_key, study_uid, study_description, study_date)} :
  \E duplicate \in {IsDuplicate(studies[study_key], image_uid)}, created \in {patient_key \notin DOMAIN index.patients}, valid \in {IsIntLiteral(image_index)} :
  LET saved == ~duplicate /\ valid
      reads_clock == created \/ saved
      status == IF duplicate THEN "skipped" ELSE IF valid THEN "saved" ELSE "error"
  IN /\ reads_clock => clock <= MaxClock
     /\ saved => TotalImages(index) < MaxImages
     /\ ~duplicate => Cardinality(files \cup {<<patient_key, filename>>}) <= MaxFiles
     \* patient_dir.mkdir(parents=True, exist_ok=True)
     /\ dirs' = dirs \cup {patient_key}
     \* filepath.write_bytes(contents), only after the duplicate check
     /\ files' = IF duplicate THEN files ELSE files \cup {<<patient_key, filename>>}
     \* int(image_index) raises after the file is written and before the index is saved
     /\ index_file' = IF saved
                      THEN save_index(AppendImage(resolved, patient_key, studies, study_key, ImageEntry(patient_key, filename, image_index, image_uid, clock)), clock)
                      ELSE index_file
     /\ clock' = IF reads_clock THEN clock + 1 ELSE clock
     /\ last' = [op |-> "receive_image", status |-> status, key |-> patient_key,
                 name |-> patient_name, study_key |-> study_key, study_uid |-> study_uid,
                 description |-> study_description, study_date |-> study_date,
                 clinic_date |-> clinic_date, image_uid |-> image_uid,
                 image_index |-> image_index,
                 written |-> IF duplicate THEN <<>> ELSE <<patient_key, filename>>]
     /\ UNCHANGED <<tasks, write>>

\* --------------------------------------------- POST /api/images, overlapping
\* receive_image is a coroutine: it runs from load_index to
\* "contents = await image.read()", where the event loop may run another
\* request, and from there to the end.  save_index opens index.json for
\* writing, which empties it, writes the text and closes the file; the
\* endpoints declared with "def" run on other threads meanwhile.
receive_image_begin(r, patient_name, patient_dob, study_uid, study_description, study_date, image_index, clinic_date, image_uid, hex) ==
  /\ tasks[r].pc = "idle"
  /\ write.stage = "none"
  /\ \E index \in {load_index}, patient_key \in {PatientKey(patient_name, patient_dob)}, study_key \in {StudyKey(study_uid, study_description, study_date, clinic_date)}, filename \in {Filename(study_description, study_uid, image_index, hex)} :
     \E resolved \in {ResolvePatient(index, patient_key, patient_name, patient_dob, clinic_date, clock)} :
     \E studies \in {ResolveStudy(resolved.patients[patient_key].studies, study_key, study_uid, study_description, study_date)} :
     \E created \in {patient_key \notin DOMAIN index.patients} :
       /\ created => clock <= MaxClock
       /\ clock' = IF created THEN clock + 1 ELSE clock
       /\ dirs' = dirs \cup {patient_key}
       /\ tasks' = [tasks EXCEPT ![r] =
                      IF IsDuplicate(studies[study_key], image_uid)
                      THEN [pc |-> "done", status |-> "skipped"]
                      ELSE [pc |-> "awaiting", status |-> "none", base |-> index_file, index |-> resolved,
                            studies |-> studies, patient_key |-> patient_key, study_key |-> study_key,
                            filename |-> filename, image_index |-> image_index, image_uid |-> image_uid]]
  /\ UNCHANGED <<index_file, files, last, write>>

\* from filepath.write_bytes(contents) to the open() of save_index
receive_image_resume(r) ==
  /\ tasks[r].pc = "awaiting"
  /\ write.stage = "none"
  /\ \E task \in {tasks[r]} :
       /\ files' = files \cup {<<task.patient_key, task.filename>>}
       /\ IF IsIntLiteral(task.image_index)
          THEN /\ clock <= MaxClock
               /\ \E entry \in {ImageEntry(task.patient_key, task.filename, task.image_index, task.image_uid, clock)} :
                    /\ write' = [stage |-> "truncated", request |-> r,
                                 document |-> save_index(AppendImage(task.index, task.patient_key, task.studies, task.study_key, entry), clock)]
                    \* stale: index.json is no longer the document this call loaded
                    /\ tasks' = [tasks EXCEPT ![r] = [pc |-> "saving", status |-> "none", stale |-> task.base # index_file,
                                                      patient_key |-> task.patient_key, study_key |-> task.study_key, entry |-> entry]]
               /\ clock' = clock + 1
          ELSE /\ tasks' = [tasks EXCEPT ![r] = [pc |-> "done", status |-> "error"]]
               /\ UNCHANGED <<write, clock>>
  /\ UNCHANGED <<index_file, dirs, last>>

\* a part of the text has reached index.json
save_index_write ==
  /\ write.stage = "truncated"
  /\ write' = [write EXCEPT !.stage = "partial"]
  /\ UNCHANGED <<index_file, files, dirs, clock, last, tasks>>

\* the whole text is in index.json; receive_image returns "saved"
save_index_close ==
  /\ write.stage \in {"truncated", "partial"}
  /\ index_file' = write.document
  /\ write' = NoWrite
  /\ tasks' = [tasks EXCEPT ![write.request].pc = "done", ![write.request].status = "saved"]
  /\ UNCHANGED <<files, dirs, clock, last>>

\* GET /api/pending_refreshes on a worker thread: load_index reads whatever
\* index.json holds at that moment, and json.loads raises on an empty or cut text
get_pending_refreshes_request ==
  /\ last' = IF write.stage = "none"
             THEN [op |-> "get_pending_refreshes", status |-> "ok", during_save |-> FALSE, read |-> "document",
                   pending |-> load_index.pending_refreshes]
             ELSE [op |-> "get_pending_refreshes", status |-> "error", during_save |-> TRUE,
                   read |-> IF write.stage = "truncated" THEN "empty" ELSE "partial"]
  /\ UNCHANGED <<index_file, files, dirs, clock, tasks, write>>

\* ------------------------------- POST /api/patients/{patient_key}/request-refresh
\* a pending entry keeps its first timestamp
SetPending_KeepFirst(pending, patient_key, now) ==
  IF patient_key \in DOMAIN pending THEN pending ELSE Put(pending, patient_key, now)

\* index["pending_refreshes"][patient_key] = datetime.utcnow().isoformat()
SetPending(pending, patient_key, now) == Put(pending, patient_key, now)

request_refresh(patient_key) ==
  LET index == load_index
  IN IF patient_key \notin DOMAIN index.patients
     THEN /\ last' = [op |-> "request_refresh", status |-> "not_found", key |-> patient_key]
          /\ UNCHANGED <<index_file, files, dirs, clock, tasks, write>>
     ELSE /\ clock <= MaxClock
          /\ index_file' = save_index([index EXCEPT !.pending_refreshes = SetPending(@, patient_key, clock)], clock)
          /\ clock' = clock + 1
          /\ last' = [op |-> "request_refresh", status |-> "queued", key |-> patient_key]
          /\ UNCHANGED <<files, dirs, tasks, write>>

\* ------------------------------------------------- GET /api/pending_refreshes
get_pending_refreshes == load_index.pending_refreshes

\* --------------------------------- DELETE /api/pending_refreshes/{patient_key}
\* the whole queue is emptied
PopPending_All(pending, patient_key) == EmptyMap

\* index.get("pending_refreshes", {}).pop(patient_key, None)
PopPending(pending, patient_key) == Remove(pending, patient_key)

clear_refresh(patient_key) ==
  LET index == load_index
  IN /\ clock <= MaxClock
     /\ index_file' = save_index([index EXCEPT !.pending_refreshes = PopPending(@, patient_key)], clock)
     /\ clock' = clock + 1
     /\ last' = [op |-> "clear_refresh", status |-> "cleared", key |-> patient_key]
     /\ UNCHANGED <<files, dirs, tasks, write>>

\* ----------------------------------------------------------- DELETE /api/clear
\* only the patients of the loaded index are reset
clear_all_KeepsPending ==
  /\ clock <= MaxClock
  /\ files' = {}
  /\ dirs' = {}
  /\ index_file' = save_index([load_index EXCEPT !.patients = EmptyMap, !.order = <<>>], clock)
  /\ clock' = clock + 1
  /\ last' = [op |-> "clear_all", status |-> "cleared"]
  /\ UNCHANGED <<tasks, write>>

\* shutil.rmtree(IMAGES_DIR); save_index({"patients": {}, "updated": None})
clear_all ==
  /\ clock <= MaxClock
  /\ files' = {}
  /\ dirs' = {}
  /\ index_file' = save_index([patients |-> EmptyMap, order |-> <<>>, has_pending |-> FALSE, pending_refreshes |-> EmptyMap, updated |-> 0], clock)
  /\ clock' = clock + 1
  /\ last' = [op |-> "clear_all", status |-> "cleared"]
  /\ UNCHANGED <<tasks, write>>

\* ------------------------------------------------------------ GET /api/patients
\* the dict appended for one patient; it has no created_at entry
PatientSummary(key, data) ==
  [key |-> key, name |-> data.name, dob |-> data.dob, clinic_date |-> data.clinic_date,
   image_count |-> data.image_count, study_count |-> Cardinality(DOMAIN data.studies)]

\* p.get("created_at", ""): the empty string sorts before every timestamp
CreatedAtSortKey(p) == IF "created_at" \in DOMAIN p THEN <<1, p.created_at>> ELSE <<0, 0>>
SortKeyLess(x, y) == x[1] < y[1] \/ (x[1] = y[1] /\ x[2] < y[2])

\* list.sort is stable: an element goes behind the elements it does not precede
RECURSIVE InsertByCreatedAt(_, _)
InsertByCreatedAt(sorted, p) ==
  IF sorted = <<>> THEN <<p>>
  ELSE IF SortKeyLess(CreatedAtSortKey(p), CreatedAtSortKey(Head(sorted)))
       THEN <<p>> \o sorted
       ELSE <<Head(sorted)>> \o InsertByCreatedAt(Tail(sorted), p)
RECURSIVE SortByCreatedAt(_, _)
SortByCreatedAt(sorted, rest) ==
  IF rest = <<>> THEN sorted ELSE SortByCreatedAt(InsertByCreatedAt(sorted, Head(rest)), Tail(rest))

\* sort(key=lambda p: p["clinic_date"] or "", reverse=True), stable as well
RECURSIVE InsertByClinicDateDesc(_, _)
InsertByClinicDateDesc(sorted, p) ==
  IF sorted = <<>> THEN <<p>>
  ELSE IF StrLess(Head(sorted).clinic_date, p.clinic_date)
       THEN <<p>> \o sorted
       ELSE <<Head(sorted)>> \o InsertByClinicDateDesc(Tail(sorted), p)
RECURSIVE SortByClinicDateDesc(_, _)
SortByClinicDateDesc(sorted, rest) ==
  IF rest = <<>> THEN sorted ELSE SortByClinicDateDesc(InsertByClinicDateDesc(sorted, Head(rest)), Tail(rest))

list_patients ==
  LET index == load_index
      patients == [i \in 1..Len(index.order) |-> PatientSummary(index.order[i], index.patients[index.order[i]])]
  IN /\ last' = [op |-> "list_patients", patients |-> SortByClinicDateDesc(<<>>, SortByCreatedAt(<<>>, patients))]
     /\ UNCHANGED <<index_file, files, dirs, clock, tasks, write>>

\* -------------------------------------------------------------- POST /api/ocr
DateSeparators == {"/", "-"}
IsDigitAt(t, i) == i <= Len(t) /\ t[i] \in Digits
IsSeparatorAt(t, i) == i <= Len(t) /\ t[i] \in DateSeparators
\* \b between position i - 1 and position i
IsBoundaryAt(t, i) ==
  LET before == i > 1 /\ i - 1 <= Len(t) /\ t[i - 1] \in WordChars
      after == i <= Len(t) /\ t[i] \in WordChars
  IN before # after
\* \d{1,2}[/\-] at i: the number of digits taken, 0 without a match
DayOrMonthLen(t, i) ==
  IF IsDigitAt(t, i) /\ IsDigitAt(t, i + 1) /\ IsSeparatorAt(t, i + 2) THEN 2
  ELSE IF IsDigitAt(t, i) /\ IsSeparatorAt(t, i + 1) THEN 1
  ELSE 0
\* \d{2,4}\b at i, greedy: the number of digits taken, 0 without a match
YearLen(t, i) ==
  LET fits(n) == (\A j \in i..(i + n - 1) : IsDigitAt(t, j)) /\ IsBoundaryAt(t, i + n)
  IN IF fits(4) THEN 4 ELSE IF fits(3) THEN 3 ELSE IF fits(2) THEN 2 ELSE 0
\* the position behind a match of date_re that starts at i, 0 without a match
DateMatchEnd(t, i) ==
  LET a == DayOrMonthLen(t, i)
      b == DayOrMonthLen(t, i + a + 1)
      c == YearLen(t, i + a + 1 + b + 1)
  IN IF IsBoundaryAt(t, i) /\ a > 0 /\ b > 0 /\ c > 0 THEN i + a + 1 + b + 1 + c ELSE 0
\* len(date_re.findall(t)): the matches found left to right, without overlap
RECURSIVE CountDatesFrom(_, _)
CountDatesFrom(t, i) ==
  IF i > Len(t) THEN 0
  ELSE IF DateMatchEnd(t, i) > 0 THEN 1 + CountDatesFrom(t, DateMatchEnd(t, i))
  ELSE CountDatesFrom(t, i + 1)
CountDates(t) == CountDatesFrom(t, 1)

\* if n > best_count: best_count, best_text = n, t
KeepBest(best, t) == IF CountDates(t) > best.count THEN [text |-> t, count |-> CountDates(t)] ELSE best

\* outputs: what image_to_string returns for psm 6, 4 and 3, in this order
ocr_image(outputs, outcome) ==
  LET start == [text |-> <<>>, count |-> 0]
      best == KeepBest(KeepBest(KeepBest(start, outputs[1]), outputs[2]), outputs[3])
  IN /\ last' = IF outcome = "ImportError" THEN [op |-> "ocr_image", status |-> "503", outputs |-> outputs]
                ELSE IF outcome = "Exception" THEN [op |-> "ocr_image", status |-> "500", outputs |-> outputs]
                ELSE [op |-> "ocr_image", status |-> "ok", outputs |-> outputs, text |-> best.text, dates_found |-> best.count]
     /\ UNCHANGED <<index_file, files, dirs, clock, tasks, write>>

\* sanitize_filename applied to a string, and to its own result
sanitize(name) ==
  /\ last' = [op |-> "sanitize_filename", input |-> name, output |-> sanitize_filename(name),
               again |-> sanitize_filename(sanitize_filename(name))]
  /\ UNCHANGED <<index_file, files, dirs, clock, tasks, write>>

\* ------------------------------------------------------- the specifications
\* The requests of one run draw their form fields from the sets of an input
\* record; every specification below runs all five index-writing endpoints.
Register(in) == \E n \in in.names, d \in in.dobs, c \in in.register_dates : register_patient(n, d, c)
Receive(in) ==
  \E n \in in.names, d \in in.dobs, su \in in.study_uids, sd \in in.descriptions,
     dt \in in.study_dates, ix \in in.image_indexes, c \in in.clinic_dates, iu \in in.image_uids, h \in in.hexes :
       receive_image(n, d, su, sd, dt, ix, c, iu, h)
RequestRefresh(in) == \E k \in in.keys : request_refresh(k)
ClearRefresh(in) == \E k \in in.keys : clear_refresh(k)
ClearAll == clear_all

NextOver(in) == Register(in) \/ Receive(in) \/ RequestRefresh(in) \/ ClearRefresh(in) \/ ClearAll

KeyA == PatientKey(NameA, <<>>)
KeyB == PatientKey(NameB, <<>>)
KeyZ == <<"z">>       \* a key no patient has

\* patients, clinic dates and the refresh queue
Inputs ==
  [names |-> {NameA, NameB}, dobs |-> {<<>>}, register_dates |-> {<<>>, Date2},
   study_uids |-> {<<>>}, descriptions |-> {<<>>}, study_dates |-> {<<>>},
   image_indexes |-> {<<"0">>}, clinic_dates |-> {<<>>, Date2}, image_uids |-> {<<>>, ImageUidI},
   hexes |-> {Hex0}, keys |-> {KeyA, KeyB, KeyZ}]
Next == NextOver(Inputs)
Spec == Init /\ [][Next]_vars

\* one patient: image uids, image indexes and file names
IngestInputs ==
  [names |-> {NameA}, dobs |-> {<<>>}, register_dates |-> {<<>>},
   study_uids |-> {<<>>}, descriptions |-> {<<>>}, study_dates |-> {<<>>, Date2},
   image_indexes |-> {<<"0">>, <<"x">>}, clinic_dates |-> {<<>>}, image_uids |-> {<<>>, ImageUidI},
   hexes |-> {Hex0, Hex1}, keys |-> {KeyA}]
NextIngest == NextOver(IngestInputs)
SpecIngest == InitFresh /\ [][NextIngest]_vars

\* one patient key under two names, the study keys and the dates
DateInputs ==
  [names |-> {NameA, NameASlash}, dobs |-> {<<>>}, register_dates |-> {<<>>, Date1s12},
   study_uids |-> {<<>>, UidStudy}, descriptions |-> {<<>>, <<"s">>}, study_dates |-> {<<>>},
   image_indexes |-> {<<"0">>}, clinic_dates |-> {<<>>, Date1s12, Date11s2}, image_uids |-> {<<>>},
   hexes |-> {Hex0}, keys |-> {KeyA}]
NextDates == NextOver(DateInputs)
SpecDates == InitFresh /\ [][NextDates]_vars

\* ------------------------------------------------ list_patients on any index
\* the documents load_index can read: up to three patients in any order of
\* the patients object, each with any clinic date and any created_at
ListKeys == {KeyA, KeyB, <<"c", "_">>}
ListDates == {<<>>, Date2, Date1s12}
ListTimes == 1..MaxClock
RECURSIVE OrdersOver(_)
OrdersOver(keys) ==
  {<<>>} \cup UNION {{<<k>> \o o : o \in OrdersOver(keys \ {k})} : k \in keys}
LoadablePatient(key, clinic_date, created_at) ==
  NewPatient(SubSeq(key, 1, 1), <<>>, clinic_date, created_at)
InitList ==
  /\ \E order \in OrdersOver(ListKeys) :
       \E dates \in [ListKeys -> ListDates], times \in [ListKeys -> ListTimes] :
         index_file = [exists |-> TRUE,
                       data |-> [patients |-> [k \in {order[i] : i \in 1..Len(order)} |-> LoadablePatient(k, dates[k], times[k])],
                                 order |-> order, has_pending |-> TRUE, pending_refreshes |-> EmptyMap, updated |-> MaxClock]]
  /\ files = {}
  /\ dirs = {}
  /\ clock = MaxClock + 1
  /\ last = NoRequest
  /\ tasks = [r \in Requests |-> Idle]
  /\ write = NoWrite
NextList == list_patients
SpecList == InitList /\ [][NextList]_vars

\* ------------------------------------------------------ the OCR mode scorer
TextNoDate == <<"x">>
TextLongYear == <<"1", "/", "1", "/", "1", "1", "1", "1", "1">>
TextOneDate == <<"1", "/", "1", "/", "1", "1">>
TextTwoDates == <<"1", "/", "1", "/", "1", "1", " ", "2", "-", "2", "-", "2", "2">>
TextTwoDatesB == <<"1", "2", "-", "2", "-", "2", "2", "2", " ", "x", " ", "1", "/", "1", "/", "1", "1">>
OcrTexts == {TextNoDate, TextLongYear, TextOneDate, TextTwoDates, TextTwoDatesB}
OcrOutcomes == {"ok", "ImportError", "Exception"}
NextOcr == \E t6 \in OcrTexts, t4 \in OcrTexts, t3 \in OcrTexts, outcome \in OcrOutcomes : ocr_image(<<t6, t4, t3>>, outcome)
SpecOcr == InitFresh /\ [][NextOcr]_vars

\* ---------------------------------------------------- overlapping uploads
ConcIndexes == {<<"0">>, <<"x">>}
ConcImageUids == {<<>>, ImageUidI}
ConcHexes == {Hex0, Hex1}
NextConc ==
  \/ \E r \in Requests, ix \in ConcIndexes, iu \in ConcImageUids, h \in ConcHexes :
       receive_image_begin(r, NameA, <<>>, <<>>, <<>>, <<>>, ix, <<>>, iu, h)
  \/ \E r \in Requests : receive_image_resume(r)
  \/ save_index_write
  \/ save_index_close
  \/ get_pending_refreshes_request
SpecConc == Init /\ [][NextConc]_vars

\* ------------------------------------------------------------ the sanitizer
SanitizeChars == {"a", "_", " ", "/", "-", "."}
RECURSIVE StringsUpTo(_)
StringsUpTo(n) ==
  IF n = 0 THEN {<<>>}
  ELSE StringsUpTo(n - 1) \cup {<<c>> \o t : c \in SanitizeChars, t \in {u \in StringsUpTo(n - 1) : Len(u) = n - 1}}
Repeat(c, n) == SubSeq([i \in 1..n |-> c], 1, n)
\* strings around the 100 characters sanitize_filename keeps
LongInputs ==
  {Repeat("a", SanitizeMaxLen), Repeat("a", SanitizeMaxLen + 1),
   Repeat("a", SanitizeMaxLen - 1) \o <<" ", " ", "b">>,
   Repeat("a", SanitizeMaxLen) \o <<"/", "b">>,
   Repeat("/", SanitizeMaxLen + 1) \o <<"a">>,
   Repeat(" ", SanitizeMaxLen + 1)}
SanitizeInputs == StringsUpTo(MaxInputLen) \cup LongInputs
NextSanitize == \E name \in SanitizeInputs : sanitize(name)
SpecSanitize == InitFresh /\ [][NextSanitize]_vars

\* =================================================================== claims
\* what load_index reads from the persisted document
Patients == load_index.patients
Pending == load_index.pending_refreshes

ImagesOf(patients, key, study_key) ==
  IF key \in DOMAIN patients /\ study_key \in DOMAIN patients[key].studies
  THEN patients[key].studies[study_key].images
  ELSE <<>>
UidCount(patients, key, study_key, uid) ==
  LET images == ImagesOf(patients, key, study_key)
  IN Cardinality({i \in 1..Len(images) : "uid" \in DOMAIN images[i] /\ images[i].uid = uid})

\* C1: an upload with a non-empty image uid that its study already holds is
\* answered "skipped", writes no file and leaves index.json as it was; the
\* study holds that uid exactly once.
C1_DuplicateIsNoOp ==
  [][(/\ last'.op = "receive_image"
      /\ last'.image_uid # <<>>
      /\ UidCount(Patients, last'.key, last'.study_key, last'.image_uid) > 0)
     => (/\ last'.status = "skipped"
         /\ last'.written = <<>>
         /\ files' = files
         /\ index_file' = index_file
         /\ UidCount(Patients', last'.key, last'.study_key, last'.image_uid) = 1)]_vars

C1_Witness ==
  /\ last.op = "receive_image"
  /\ last.status = "skipped"
  /\ last.image_uid # <<>>
  /\ UidCount(Patients, last.key, last.study_key, last.image_uid) = 1

\* C2: in every persisted index no study holds two images with the same
\* non-empty uid.
C2_UniqueImageUids ==
  \A k \in DOMAIN Patients : \A sk \in DOMAIN Patients[k].studies :
    LET images == Patients[k].studies[sk].images
    IN \A i, j \in 1..Len(images) :
         (i < j /\ "uid" \in DOMAIN images[i] /\ "uid" \in DOMAIN images[j] /\ images[i].uid # <<>>)
           => images[i].uid # images[j].uid

C2_Witness ==
  /\ last.op = "receive_image"
  /\ last.status = "skipped"
  /\ Len(ImagesOf(Patients, last.key, last.study_key)) = 2

\* C3: every patient's image_count is the sum of the lengths of the image
\* lists of its studies.
C3_ImageCountIsSum ==
  \A k \in DOMAIN Patients :
    Patients[k].image_count = SumLens(Patients[k].studies, DOMAIN Patients[k].studies)

C3_Witness ==
  \E k \in DOMAIN Patients :
    /\ Patients[k].image_count = 2
    /\ Cardinality({sk \in DOMAIN Patients[k].studies : Len(Patients[k].studies[sk].images) = 1}) = 2

\* C4: two uploads for one patient, both without a study uid and (the clinic
\* date being the fallback date) without a study date, with the same
\* description and different clinic dates, get different study keys.
C4_ClinicDatesKeepStudiesApart ==
  [][(/\ last.op = "receive_image" /\ last'.op = "receive_image"
      /\ last.key = last'.key
      /\ last.study_uid = <<>> /\ last'.study_uid = <<>>
      /\ last.study_date = <<>> /\ last'.study_date = <<>>
      /\ last.description = last'.description
      /\ last.clinic_date # last'.clinic_date)
     => last.study_key # last'.study_key]_vars

\* C5: list_patients answers the patients by clinic date descending, the
\* empty clinic date last, and equal clinic dates by created_at ascending.
C5_ListOrder ==
  last.op = "list_patients" =>
    \A i, j \in 1..Len(last.patients) :
      i < j =>
        /\ ~StrLess(last.patients[i].clinic_date, last.patients[j].clinic_date)
        /\ last.patients[i].clinic_date = last.patients[j].clinic_date
             => Patients[last.patients[i].key].created_at <= Patients[last.patients[j].key].created_at

\* C6: request_refresh of an unknown key answers not found and leaves
\* index.json as it was; of a known key it leaves that key pending with the
\* time of this request, and every other pending entry and every patient as
\* they were.
C6_RequestRefresh ==
  [][last'.op = "request_refresh" =>
       IF last'.key \notin DOMAIN Patients
       THEN /\ last'.status = "not_found"
            /\ index_file' = index_file
       ELSE /\ last'.status = "queued"
            /\ DOMAIN Pending' = DOMAIN Pending \cup {last'.key}
            /\ Pending'[last'.key] = clock
            /\ \A k \in DOMAIN Pending \ {last'.key} : Pending'[k] = Pending[k]
            /\ Patients' = Patients]_vars

C6_Witness ==
  /\ last.op = "request_refresh"
  /\ last.status = "queued"
  /\ last.key \in DOMAIN Pending
  /\ \E k \in DOMAIN Pending : k # last.key /\ Pending[k] < Pending[last.key]

\* C7: after clear_refresh the key is not pending, whether it was or not; the
\* call succeeds, a repeated call changes neither patients nor queue, and the
\* other pending entries stay as they were.
C7_ClearRefresh ==
  [][last'.op = "clear_refresh" =>
       /\ last'.status = "cleared"
       /\ last'.key \notin DOMAIN get_pending_refreshes'
       /\ DOMAIN Pending' = DOMAIN Pending \ {last'.key}
       /\ \A k \in DOMAIN Pending' : Pending'[k] = Pending[k]
       /\ Patients' = Patients
       /\ last'.key \notin DOMAIN Pending => Pending' = Pending]_vars

C7_Witness ==
  /\ last.op = "clear_refresh"
  /\ last.key \in DOMAIN Patients
  /\ last.key \notin DOMAIN Pending
  /\ Pending # EmptyMap

\* C8: the scorer answers the text and the date count of the first mode, in
\* the order psm 6, 4, 3, whose text has the most date matches.
C8_FirstBestWins ==
  (last.op = "ocr_image" /\ last.status = "ok") =>
    LET counts == [m \in 1..3 |-> CountDates(last.outputs[m])]
        most == CHOOSE c \in {counts[m] : m \in 1..3} : \A m \in 1..3 : counts[m] <= c
        first == CHOOSE m \in 1..3 : counts[m] = most /\ \A n \in 1..(m - 1) : counts[n] # most
    IN last.text = last.outputs[first] /\ last.dates_found = most

\* C9: an upload without an image uid and with an integer image index is
\* answered "saved" and appends exactly one image to its study, whatever the
\* study holds.
C9_NoUidNeverDeduplicates ==
  [][(/\ last'.op = "receive_image"
      /\ last'.image_uid = <<>>
      /\ IsIntLiteral(last'.image_index))
     => (/\ last'.status = "saved"
         /\ Len(ImagesOf(Patients', last'.key, last'.study_key)) = Len(ImagesOf(Patients, last'.key, last'.study_key)) + 1
         /\ SubSeq(ImagesOf(Patients', last'.key, last'.study_key), 1, Len(ImagesOf(Patients, last'.key, last'.study_key)))
              = ImagesOf(Patients, last'.key, last'.study_key))]_vars

C9_Witness ==
  /\ last.op = "receive_image"
  /\ last.status = "saved"
  /\ last.image_uid = <<>>
  /\ LET images == ImagesOf(Patients, last.key, last.study_key)
     IN /\ Len(images) = 2
        /\ "uid" \notin DOMAIN images[1] /\ "uid" \notin DOMAIN images[2]
        /\ images[1].filename = images[2].filename

\* C10: a patient's non-empty clinic date is changed by no register_patient,
\* receive_image, request_refresh or clear_refresh call.
C10_ClinicDateKept ==
  [][last'.op # "clear_all" =>
       \A k \in DOMAIN Patients :
         Patients[k].clinic_date # <<>> =>
           k \in DOMAIN Patients' /\ Patients'[k].clinic_date = Patients[k].clinic_date]_vars

C10_Witness ==
  /\ last.op = "receive_image"
  /\ last.status = "saved"
  /\ last.clinic_date # <<>>
  /\ Patients[last.key].clinic_date # <<>>
  /\ Patients[last.key].clinic_date # last.clinic_date

\* C11: register_patient for a key the index already holds answers
\* "registered" and leaves index.json as it was, whatever it was given.
C11_RegisterIsCreateOnly ==
  [][(last'.op = "register_patient" /\ last'.key \in DOMAIN Patients)
     => (last'.status = "registered" /\ index_file' = index_file)]_vars

C11_Witness ==
  /\ last.op = "register_patient"
  /\ last.key \in DOMAIN Patients
  /\ Patients[last.key].name # last.name
  /\ Patients[last.key].image_count > 0

\* C12: sanitize_filename applied to its own result gives that result again;
\* the result has at most 100 characters, all of them alphanumerics, "_", "-"
\* or "."; the empty string gives the empty string.
C12_SanitizeIdempotent ==
  last.op = "sanitize_filename" =>
    /\ last.again = last.output
    /\ Len(last.output) <= 100
    /\ \A i \in 1..Len(last.output) : last.output[i] \in Digits \cup Letters \cup {"_", "-", "."}
    /\ last.input = <<>> => last.output = <<>>

C12_Witness ==
  /\ last.op = "sanitize_filename"
  /\ Len(last.input) > 100
  /\ Len(last.output) = 100
  /\ last.output[100] = "_"
  /\ last.again = last.output

\* the pending refreshes index.json holds, read off the document itself
PersistedPending ==
  IF index_file.exists /\ index_file.data.has_pending THEN index_file.data.pending_refreshes ELSE EmptyMap

\* C13 as stated: a pending entry stays until clear_refresh is called for its
\* key; no other request, clear_all included, removes it.
C13_OnlyClearRefreshRemoves ==
  [][\A k \in DOMAIN PersistedPending :
       ~(last'.op = "clear_refresh" /\ last'.key = k) => k \in DOMAIN PersistedPending']_vars

\* C13 amended: a pending entry stays, with a timestamp only request_refresh
\* for its key renews, until clear_refresh is called for its key or clear_all
\* is called.
C13_PendingStaysUntilCleared ==
  [][\A k \in DOMAIN PersistedPending :
       ~(last'.op = "clear_refresh" /\ last'.key = k) /\ last'.op # "clear_all"
         => /\ k \in DOMAIN PersistedPending'
            /\ ~(last'.op = "request_refresh" /\ last'.key = k) => PersistedPending'[k] = PersistedPending[k]]_vars

C13_Witness ==
  /\ last.op = "receive_image"
  /\ last.status = "saved"
  /\ \E k \in DOMAIN PersistedPending : PersistedPending[k] < index_file.data.updated

\* C14: a load_index that runs while a save_index is writing index.json reads
\* a complete document, never an empty or a cut one.
C14_LoadReadsCompleteDocument ==
  (last.op = "get_pending_refreshes" /\ last.during_save) => (last.status = "ok" /\ last.read = "document")

\* C15: an upload whose image index is no integer is answered with an error,
\* writes no file and leaves index.json as it was, so that every file of a
\* patient directory is still the file of an Image record.
AllFilesReferenced ==
  \A f \in files :
    /\ f[1] \in DOMAIN Patients
    /\ \E sk \in DOMAIN Patients[f[1]].studies :
         \E i \in 1..Len(Patients[f[1]].studies[sk].images) : Patients[f[1]].studies[sk].images[i].filename = f[2]

C15_BadIndexHasNoEffect ==
  [][(last'.op = "receive_image" /\ ~IsIntLiteral(last'.image_index))
     => (/\ last'.status = "error"
         /\ last'.written = <<>>
         /\ files' = files
         /\ index_file' = index_file
         /\ AllFilesReferenced => AllFilesReferenced')]_vars

\* the call answered "saved", and whether its Image record is in index.json
Saved(r) == tasks[r].pc = "done" /\ tasks[r].status = "saved"
Persisted(r) ==
  /\ tasks[r].patient_key \in DOMAIN Patients
  /\ tasks[r].study_key \in DOMAIN Patients[tasks[r].patient_key].studies
  /\ \E i \in 1..Len(Patients[tasks[r].patient_key].studies[tasks[r].study_key].images) :
       Patients[tasks[r].patient_key].studies[tasks[r].study_key].images[i] = tasks[r].entry

\* C16: the Image record of an upload answered "saved" is in index.json
\* unless the other upload, which had loaded the index before this one saved
\* it, saved afterwards; with no such overlap every saved record is there.
C16_LostOnlyByOverlap ==
  \A r \in Requests :
    Saved(r) => (Persisted(r) <=> ~\E q \in Requests \ {r} : Saved(q) /\ tasks[q].stale)

C16_Witness ==
  /\ \A r \in Requests : Saved(r)
  /\ \E r \in Requests : tasks[r].stale /\ Persisted(r)
  /\ \E r \in Requests : ~Persisted(r)
  /\ index_file.exists /\ TotalImages(index_file.data) = 1

\* C17: no request but clear_all changes the name, the date of birth or the
\* created_at of a patient the index holds.
C17_PatientFieldsKept ==
  [][last'.op # "clear_all" =>
       \A k \in DOMAIN Patients :
         /\ k \in DOMAIN Patients'
         /\ Patients'[k].name = Patients[k].name
         /\ Patients'[k].dob = Patients[k].dob
         /\ Patients'[k].created_at = Patients[k].created_at]_vars

C17_Witness ==
  /\ last.op = "receive_image"
  /\ last.status = "saved"
  /\ Patients[last.key].name # last.name
  /\ Patients[last.key].created_at < index_file.data.updated

\* the Image records of one patient, over all its studies
ImageRefs(patient) ==
  {<<sk, i>> : sk \in DOMAIN patient.studies, i \in 1..MaxImages + 2} \cap
  UNION {{<<sk, i>> : i \in 1..Len(patient.studies[sk].images)} : sk \in DOMAIN patient.studies}

\* C18: no two Image records of one patient have the same filename, and an
\* upload never writes over a file that is already there.
C18_FilenamesUnique ==
  [][/\ \A k \in DOMAIN Patients' :
          \A r1, r2 \in ImageRefs(Patients'[k]) :
            r1 # r2 => Patients'[k].studies[r1[1]].images[r1[2]].filename # Patients'[k].studies[r2[1]].images[r2[2]].filename
     /\ (last'.op = "receive_image" /\ last'.written # <<>>) => last'.written \notin files]_vars

\* C19: every key of pending_refreshes is a key of patients, also after
\* clear_all, whose document has no pending_refreshes field.
C19_PendingKeysArePatients ==
  /\ DOMAIN Pending \subseteq DOMAIN Patients
  /\ last.op = "clear_all" => (~index_file.data.has_pending /\ Pending = EmptyMap)

C19_Witness ==
  /\ last.op = "request_refresh"
  /\ last.status = "queued"
  /\ Pending[last.key] = index_file.data.updated
  /\ \E k \in DOMAIN Patients : k \notin DOMAIN Pending

\* C20: a study stored under key k has the uid k or no uid, and an upload with
\* a study uid appends its image to a study whose uid is that uid.
C20_UidStudiesStayApart ==
  [][/\ \A k \in DOMAIN Patients' : \A sk \in DOMAIN Patients'[k].studies :
          Patients'[k].studies[sk].uid \in {sk, <<>>}
     /\ (last'.op = "receive_image" /\ last'.status = "saved" /\ last'.study_uid # <<>>)
          => \E sk \in DOMAIN Patients'[last'.key].studies :
               /\ Patients'[last'.key].studies[sk].uid = last'.study_uid
               /\ \E i \in 1..Len(Patients'[last'.key].studies[sk].images) :
                    Patients'[last'.key].studies[sk].images[i].filename = last'.written[2]
                    /\ Patients'[last'.key].studies[sk].images[i].saved_at = clock]_vars

====
